---- MODULE Spec2Model ----
(***************************************************************************)
(* The session-authenticated web console of OgarII-Render: class           *)
(* WebConsole (src/unnamed/part_001), its session map, its bounded history, *)
(* and the capture of handle.logger.print around a command.                 *)
(*                                                                         *)
(* Node runs every route handler to completion on one thread, so a handler  *)
(* is one action.  The one exception is POST /console/command: the call of  *)
(* handle.commands.execute is a call into the external command registry,    *)
(* which prints any number of lines through handle.logger.print and then    *)
(* returns or throws.  That call is modelled step by step (pc = "executing")*)
(* and no other request is served while it runs.                            *)
(*                                                                         *)
(* The console reads the wall clock with new Date() (lines 43-44, 66, 150   *)
(* and 167) and keeps what it reads.  The clock is the host's: between two  *)
(* requests and while the registry runs a command it may come to read any   *)
(* other value, a lower one included, and so it may from one new Date() to  *)
(* the next inside a handler: every reading after the first one of a        *)
(* handler is an input of the action (the sweep of a login, the note of a   *)
(* clear-history, each output entry of a command), and `now` is the last    *)
(* reading taken.                                                           *)
(*                                                                         *)
(* The token of a login is crypto.randomBytes(32) in hex (line 40), stored  *)
(* with sessions.set (line 41) without a look at the store: the draw is an  *)
(* input of the login and may be any value, one that is stored or was       *)
(* stored before included, and the entry of such a token is overwritten.    *)
(* The specifications say which draws their runs take: all of them, or the  *)
(* ones that are new, which is every draw but a share of about 2^-256 for   *)
(* each token issued.                                                       *)
(***************************************************************************)
EXTENDS Integers, Sequences, FiniteSets, TLC

VARIABLES
    sessions,   \* this.sessions: token -> [lastActivity]
    requested,  \* token -> when the console last accepted a request of the session, its login included
    issued,     \* tokens crypto.randomBytes has returned so far
    now,        \* the wall clock, in milliseconds
    history,    \* this.history: sequence of [message, type, timestamp]
    appended,   \* every entry appended since construction or the last clear
    print,      \* handle.logger.print: number of capture wrappers around the original sink
    delivered,  \* messages that reached the original sink, in order
    pc,         \* "idle", or "executing" inside handle.commands.execute
    cur,        \* the command request being served: command, originalPrint, output
    started,    \* how many messages the original sink had received when that command began
    resp,       \* the last request and the response it got
    call,       \* the arguments of the last call of addToHistory made from outside the handlers
    budget      \* requests the exploration may still make

vars == <<sessions, requested, issued, now, history, appended, print, delivered, pc, cur, started,
          resp, call, budget>>

---------------------------------------------------------------------------
(* Bounds of the exploration *)

MaxRequests == 2
MaxHistRequests == 2
MaxLines == 2
MaxDelivered == 2

\* command requests taken up by the console that starts with two sessions
MaxCmdRequests == 2

\* requests taken up by the console that starts with one session
MaxSessionRequests == 2

\* calls of addToHistory made from outside the handlers
MaxCalls == 3

\* requests taken up by the console whose one session sends commands
MaxOutputRequests == 1

\* logins and calls of cleanupSessions on a console with sessions of any age
MaxSweeps == 1

\* token values the exploration tells apart.  No run asks for more of them:
\* the tokens issued at its start and the logins it may make do not exceed
\* it, so a login always has a value to draw that was not issued before.
MaxTokens == 4

---------------------------------------------------------------------------
(* Program constants and input domains *)

maxHistorySize == 100

IdleTimeout == 24 * 60 * 60 * 1000

\* the instants at which something happens: the start, exactly one idle
\* timeout later, and one millisecond after that
Instants == {0, IdleTimeout, IdleTimeout + 1}

\* two readings of the clock, for the runs in which the timeout plays no part
TwoInstants == {0, IdleTimeout + 1}

credentials == [username |-> "admin", password |-> "secret"]

Undefined == "<undefined>"

\* mutant: only a missing value counts as not given
FalsyOnlyUndefined(x) == x = Undefined

Falsy(x) == x \in {Undefined, ""}

\* the hex strings crypto.randomBytes may give, named t1, t2, ...
TokenName(i) == "t" \o ToString(i)

FirstTokens(n) == {TokenName(i) : i \in 1..n}

Tokens == FirstTokens(MaxTokens)

\* an Authorization header made up by the client: a value the console never
\* issues
Forged == "forged"

\* the Authorization header of a request: a token the console has issued, a
\* made-up value, or none
Headers == issued \cup {Forged, Undefined}

Usernames == {"admin", "mallory", Undefined}

Passwords == {"secret", "guess", ""}

Commands == {"status", "restart"}

CommandInputs == Commands \cup {Undefined, ""}

Lines == {<<"A">>, <<"B">>}

\* what the status handler finds when it reads the handle: a running server
\* with a port set, a stopped one with no port set (0), or a read that throws
HandleReads == {[running |-> TRUE, serverPort |-> 443, throws |-> FALSE],
                [running |-> FALSE, serverPort |-> 0, throws |-> FALSE],
                [running |-> FALSE, serverPort |-> 0, throws |-> TRUE]}

\* Values the registry may throw: an Error instance, a primitive string, null.
Thrown == {[tag |-> "Error", text |-> "boom"],
           [tag |-> "string", text |-> "oops"],
           [tag |-> "null", text |-> "null"]}

validTypes == {"command", "error", "success", "output", "info", "warning"}

\* the second argument of a call of addToHistory: a valid type, a string that
\* is none, or no argument at all
GivenTypes == validTypes \cup {"debug", "", Undefined}

ProtectedRoutes == {"logout", "check-session", "clear-history", "command", "history", "status"}

---------------------------------------------------------------------------
(* Strings.  A string built by a template literal is the sequence of its    *)
(* pieces; a plain string is a sequence of one piece.                       *)

\* message.toString() of a string message
toString(m) == m

\* `${error}` for a thrown value: Error.prototype.toString gives "Error: <message>"
TemplateOf(e) == IF e.tag = "Error" THEN <<"Error: ", e.text>> ELSE <<e.text>>

\* whether a JSON body carries field f
Has(body, f) == f \in DOMAIN body

---------------------------------------------------------------------------
(* this.history *)

\* Array.prototype.slice(-n)
sliceLast(h, n) == IF Len(h) <= n THEN h ELSE SubSeq(h, Len(h) - n + 1, Len(h))

\* mutant: the type is stored as it was given
cleanTypeOfAsGiven(type) == type

\* validTypes.includes(type) ? type : 'info'
cleanTypeOf(type) == IF type \in validTypes THEN type ELSE "info"

\* mutant: slice(0, n) in place of slice(-n), the newest entries are dropped
addToHistoryKeepsOldest(h, message, type, t) ==
    LET pushed == Append(h, [message |-> toString(message),
                             type |-> cleanTypeOf(type),
                             timestamp |-> t])
    IN  IF Len(pushed) > maxHistorySize THEN SubSeq(pushed, 1, maxHistorySize) ELSE pushed

\* mutant: unshift in place of push, the new entry goes in front of the older ones
addToHistoryUnshift(h, message, type, t) ==
    LET pushed == <<[message |-> toString(message),
                     type |-> cleanTypeOf(type),
                     timestamp |-> t]>> \o h
    IN  IF Len(pushed) > maxHistorySize THEN sliceLast(pushed, maxHistorySize) ELSE pushed

\* the default value of the parameter: type = 'info'
defaultType(type) == IF type = Undefined THEN "info" ELSE type

addToHistory(h, message, type, t) ==
    LET pushed == Append(h, [message |-> toString(message),
                             type |-> cleanTypeOf(type),
                             timestamp |-> t])
    IN  IF Len(pushed) > maxHistorySize THEN sliceLast(pushed, maxHistorySize) ELSE pushed

\* output.forEach(line => this.addToHistory(line, 'output'))
\* stamps[i] is the clock reading of the call for the i-th line
RECURSIVE addOutputs(_, _, _)
addOutputs(h, output, stamps) ==
    IF output = <<>> THEN h
    ELSE addOutputs(addToHistory(h, Head(output), "output", Head(stamps)),
                    Tail(output), Tail(stamps))

\* the entries a sequence of addToHistory calls was given, for the record `appended`
entryOf(message, type, t) ==
    [message |-> toString(message), type |-> cleanTypeOf(type), timestamp |-> t]

outputEntries(output, stamps) ==
    [i \in 1..Len(output) |-> entryOf(output[i], "output", stamps[i])]

---------------------------------------------------------------------------
(* this.sessions *)

newSession(t) == [lastActivity |-> t]

\* mutant: a session idle for exactly the timeout counts as expired
ExpiredAtTimeout(session, t) == t - session.lastActivity >= IdleTimeout

Expired(session, t) == t - session.lastActivity > IdleTimeout

cleanupSessions(s, t) ==
    LET kept == {tok \in DOMAIN s : ~Expired(s[tok], t)}
    IN  [tok \in kept |-> s[tok]]

sessionsSet(s, tok, session) ==
    [k \in DOMAIN s \cup {tok} |-> IF k = tok THEN session ELSE s[k]]

\* mutant: the delete is lost
sessionsDeleteNothing(s, tok) == s

sessionsDelete(s, tok) == [k \in DOMAIN s \ {tok} |-> s[k]]

\* crypto.randomBytes(32).toString('hex'): 256 random bits, any value; the
\* code draws it without looking at the store or at the draws before
randomBytes == Tokens

\* mutant: any token that was ever issued passes, revoked or not
AuthorizedOnceIssued(s, token) == ~Falsy(token) /\ token \in issued

\* authMiddleware's test
Authorized(s, token) == ~Falsy(token) /\ token \in DOMAIN s

\* mutant: every authorized request sweeps the store as a login does
touchSweeping(s, token, t) ==
    cleanupSessions([s EXCEPT ![token] = [@ EXCEPT !.lastActivity = t]], t)

\* mutant: an authorized request does not refresh the session
touchNothing(s, token, t) == s

\* this.sessions.get(token).lastActivity = new Date()
touch(s, token, t) == [s EXCEPT ![token] = [@ EXCEPT !.lastActivity = t]]

---------------------------------------------------------------------------
(* Responses *)

\* a request, the answer it got and the last clock reading of its handler
ResponseAt(route, authorization, status, body, t) ==
    [route |-> route, authorization |-> authorization, status |-> status, body |-> body,
     at |-> t]

Response(route, authorization, status, body) ==
    ResponseAt(route, authorization, status, body, now)

NoResponse == Response("none", Undefined, 0, [none |-> TRUE])

Unauthorized(route, authorization) ==
    Response(route, authorization, 401, [error |-> "Unauthorized"])

\* Express answers a handler that throws with its default error page
Unhandled(route, authorization) ==
    Response(route, authorization, 500, [html |-> "Internal Server Error"])

\* no call of addToHistory from outside has been made
NoCall == [message |-> Undefined, type |-> Undefined]

NoCur == [command |-> Undefined, originalPrint |-> 0, output |-> <<>>, authorization |-> Undefined]

Placeholder == <<"Command executed successfully">>

CommandMessage(command) == <<"@ ", command>>

ErrorMessage(e) == <<"Error executing command: ">> \o TemplateOf(e)

ClearedMessage(previousSize) ==
    <<"Console history cleared (", ToString(previousSize), " entries removed)">>

\* res.json({success: false, error: error.message}) in the catch block:
\* reading .message of null throws; JSON.stringify drops an undefined field
CatchResponse(authorization, e) ==
    IF e.tag = "null" THEN Unhandled("command", authorization)
    ELSE IF e.tag = "Error"
         THEN Response("command", authorization, 200, [success |-> FALSE, error |-> e.text])
         ELSE Response("command", authorization, 200, [success |-> FALSE])

---------------------------------------------------------------------------
(* Initial state: the constructor *)

Init ==
    /\ sessions = [tok \in {} |-> newSession(0)]
    /\ requested = [tok \in Tokens |-> 0]
    /\ issued = {}
    /\ now = 0
    /\ history = <<>>
    /\ appended = <<>>
    /\ print = 0
    /\ delivered = <<>>
    /\ pc = "idle"
    /\ cur = NoCur
    /\ started = 0
    /\ resp = NoResponse
    /\ call = NoCall
    /\ budget = MaxRequests

\* mutant: a request is taken up while the handler of a command is still running
AcceptWhileExecuting ==
    /\ budget > 0
    /\ budget' = budget - 1

\* a request is taken up only between handlers
Accept ==
    /\ pc = "idle"
    /\ budget > 0
    /\ budget' = budget - 1

---------------------------------------------------------------------------
(* POST /console/login *)

\* mutant: one matching field is enough
credentialsMatchEither(username, password) ==
    username = credentials.username \/ password = credentials.password

\* mutant: the request is refused as incomplete only when both fields are missing
fieldsMissingBoth(username, password) == Falsy(username) /\ Falsy(password)

\* !username || !password
fieldsMissing(username, password) == Falsy(username) \/ Falsy(password)

\* mutant: the answer names the field that was wrong
loginFailureBodyNamingField(username, password) ==
    [success |-> FALSE,
     error |-> IF username # credentials.username THEN "Unknown user" ELSE "Wrong password"]

\* the body of the 401 answer of the login
loginFailureBody(username, password) == [success |-> FALSE, error |-> "Invalid credentials"]

\* username === this.credentials.username && password === this.credentials.password
credentialsMatch(username, password) ==
    username = credentials.username /\ password = credentials.password

\* the session is stored with the clock as it reads then (line 44) and the
\* sweep reads the clock again (line 150): swept is that reading.  loginTime
\* (line 43) is written and never read, the model does not keep it.
\* token is the value crypto.randomBytes gives (line 40).
Login(username, password, token, swept) ==
    /\ Accept
    /\ UNCHANGED <<call, history, appended, print, delivered, pc, cur, started>>
    /\ IF fieldsMissing(username, password)
       THEN /\ resp' = Response("login", Undefined, 400,
                                [success |-> FALSE, error |-> "Username and password required"])
            /\ UNCHANGED <<sessions, requested, issued, now>>
       ELSE IF credentialsMatch(username, password)
       THEN    /\ token \in randomBytes
               /\ sessions' = cleanupSessions(sessionsSet(sessions, token, newSession(now)), swept)
               /\ now' = swept
               /\ requested' = [k \in Tokens |->
                                   IF k \notin DOMAIN sessions' THEN 0
                                   ELSE IF k = token THEN now ELSE requested[k]]
               /\ issued' = issued \cup {token}
               /\ resp' = ResponseAt("login", Undefined, 200, [success |-> TRUE, token |-> token],
                                      swept)
       ELSE /\ resp' = Response("login", Undefined, 401, loginFailureBody(username, password))
            /\ UNCHANGED <<sessions, requested, issued, now>>

---------------------------------------------------------------------------
(* Protected routes *)

\* authMiddleware refusing a request
Refuse(route, authorization) ==
    /\ ~Authorized(sessions, authorization)
    /\ resp' = Unauthorized(route, authorization)
    /\ UNCHANGED <<sessions, requested, issued, now, call, history, appended, print, delivered, pc, cur, started>>

Logout(authorization) ==
    /\ Accept
    /\ \/ Refuse("logout", authorization)
       \/ /\ Authorized(sessions, authorization)
          /\ sessions' = sessionsDelete(touch(sessions, authorization, now), authorization)
          /\ requested' = [requested EXCEPT ![authorization] = 0]
          /\ resp' = Response("logout", authorization, 200, [success |-> TRUE])
          /\ UNCHANGED <<issued, now, call, history, appended, print, delivered, pc, cur, started>>

CheckSession(authorization) ==
    /\ Accept
    /\ \/ Refuse("check-session", authorization)
       \/ /\ Authorized(sessions, authorization)
          /\ sessions' = touch(sessions, authorization, now)
          /\ requested' = [requested EXCEPT ![authorization] = now]
          /\ resp' = Response("check-session", authorization, 200, [valid |-> TRUE])
          /\ UNCHANGED <<issued, now, call, history, appended, print, delivered, pc, cur, started>>

\* mutant: the buffer is not emptied before the note is appended
historyAfterClearKeepsEntries(h, t) == addToHistory(h, ClearedMessage(Len(h)), "info", t)

\* this.history = [] and the entry that notes the clearing
historyAfterClear(h, t) == addToHistory(<<>>, ClearedMessage(Len(h)), "info", t)

\* authMiddleware reads the clock (line 66) and addToHistory reads it again
\* for the note (line 167): noted is that reading
ClearHistory(authorization, noted) ==
    /\ Accept
    /\ \/ Refuse("clear-history", authorization)
       \/ /\ Authorized(sessions, authorization)
          /\ sessions' = touch(sessions, authorization, now)
          /\ requested' = [requested EXCEPT ![authorization] = now]
          /\ LET previousSize == Len(history)
             IN  /\ history' = historyAfterClear(history, noted)
                 /\ appended' = <<entryOf(ClearedMessage(previousSize), "info", noted)>>
                 /\ resp' = ResponseAt("clear-history", authorization, 200,
                                       [success |-> TRUE,
                                        message |-> <<"Cleared ", ToString(previousSize),
                                                      " history entries">>,
                                        cleared |-> previousSize],
                                       noted)
          /\ now' = noted
          /\ UNCHANGED <<issued, call, print, delivered, pc, cur, started>>

\* mutant: the newest entry comes first
historyBodyNewestFirst(h) == [array |-> [i \in 1..Len(h) |-> h[Len(h) + 1 - i]]]

\* res.json(this.history): the array as it stands
historyBody(h) == [array |-> h]

GetHistory(authorization) ==
    /\ Accept
    /\ \/ Refuse("history", authorization)
       \/ /\ Authorized(sessions, authorization)
          /\ sessions' = touch(sessions, authorization, now)
          /\ requested' = [requested EXCEPT ![authorization] = now]
          /\ resp' = Response("history", authorization, 200, historyBody(history))
          /\ UNCHANGED <<issued, now, call, history, appended, print, delivered, pc, cur, started>>

\* mutant: the port is passed on as read, without the default
statusBodyNoDefault(read) ==
    IF read.throws
    THEN [running |-> FALSE, serverPort |-> 3001, error |-> "read failed"]
    ELSE [running |-> read.running, serverPort |-> read.serverPort]

\* the body of the status response: handle.running || false and
\* handle.settings?.serverPort || 3001, or the body of the catch block
statusBody(read) ==
    IF read.throws
    THEN [running |-> FALSE, serverPort |-> 3001, error |-> "read failed"]
    ELSE [running |-> read.running,
          serverPort |-> IF read.serverPort = 0 THEN 3001 ELSE read.serverPort]

\* the handle is read from the game server, which this module does not model
GetStatus(authorization, read) ==
    /\ Accept
    /\ \/ Refuse("status", authorization)
       \/ /\ Authorized(sessions, authorization)
          /\ sessions' = touch(sessions, authorization, now)
          /\ requested' = [requested EXCEPT ![authorization] = now]
          /\ resp' = Response("status", authorization, 200, statusBody(read))
          /\ UNCHANGED <<issued, now, call, history, appended, print, delivered, pc, cur, started>>

---------------------------------------------------------------------------
(* POST /console/command *)

\* up to the call of handle.commands.execute: the check of the body and the
\* installation of the capturing wrapper around the current print
CommandBegin(authorization, command) ==
    /\ Accept
    /\ \/ Refuse("command", authorization)
       \/ /\ Authorized(sessions, authorization)
          /\ sessions' = touch(sessions, authorization, now)
          /\ requested' = [requested EXCEPT ![authorization] = now]
          /\ IF Falsy(command)
             THEN /\ resp' = Response("command", authorization, 200,
                                      [success |-> FALSE, error |-> "No command provided"])
                  /\ UNCHANGED <<print, pc, cur, started>>
             ELSE /\ cur' = [command |-> command, originalPrint |-> print,
                             output |-> <<>>, authorization |-> authorization]
                  /\ started' = Len(delivered)
                  /\ print' = print + 1
                  /\ pc' = "executing"
                  /\ UNCHANGED resp
          /\ UNCHANGED <<issued, now, call, history, appended, delivered>>

\* mutant: the wrapper pushes the message and does not hand it on
sinkReceivesNothingThroughWrapper(wrappers, message) ==
    IF wrappers = 0 THEN <<message>> ELSE <<>>

\* what the original sink receives when handle.logger.print(message) is
\* called with this many wrappers installed: each wrapper calls its
\* originalPrint once with the message it was given (line 108)
RECURSIVE sinkReceives(_, _)
sinkReceives(wrappers, message) ==
    IF wrappers = 0 THEN <<message>> ELSE sinkReceives(wrappers - 1, message)

\* mutant: the wrapper pushes only the first line it sees
wrapperPushFirstOnly(output, message) ==
    IF output = <<>> THEN <<toString(message)>> ELSE output

\* output.push(message.toString()) in the wrapper of the running command
wrapperPush(output, message) == Append(output, toString(message))

\* the registry calls handle.logger.print(message): the wrapper of the
\* running command pushes the message on its output and hands it to
\* originalPrint; every wrapper below it was left by a faulted command,
\* pushes on an array nobody reads any more and hands the message on
RegistryPrint(message) ==
    /\ pc = "executing"
    /\ Len(cur.output) < MaxLines
    /\ Len(delivered) < MaxDelivered
    /\ cur' = [cur EXCEPT !.output = wrapperPush(@, message)]
    /\ delivered' = delivered \o sinkReceives(print, message)
    /\ UNCHANGED <<sessions, requested, issued, now, call, history, appended, print, pc, started, resp, budget>>

\* mutant: the sink is reset to the original one, whatever was installed before
restoredPrintBottom(installed, originalPrint) == 0

\* the sink after execute returned: this.handle.logger.print = originalPrint
restoredPrint(installed, originalPrint) == originalPrint

\* the sink after execute threw: the catch block does not assign it
printAfterThrow(installed, originalPrint) == installed

\* mutant: the output lines are recorded before the command line
historyAfterReturnOutputFirst(h, command, output, t, stamps) ==
    addToHistory(addOutputs(h, output, stamps), CommandMessage(command), "command", t)

\* mutant: the lines of the response are recorded, the placeholder among them
historyAfterReturnRecordsPlaceholder(h, command, output, t, stamps) ==
    addOutputs(addToHistory(h, CommandMessage(command), "command", t),
               IF Len(output) > 0 THEN output ELSE <<Placeholder>>,
               IF Len(output) > 0 THEN stamps ELSE <<t>>)

\* the history after execute returned: one call of addToHistory for the
\* command, which reads the clock as t, and one for each line
historyAfterReturn(h, command, output, t, stamps) ==
    addOutputs(addToHistory(h, CommandMessage(command), "command", t), output, stamps)

\* mutant: the lines printed before the throw are recorded before the error
historyAfterThrowRecordsLines(h, command, e, t) ==
    addToHistory(addOutputs(h, cur.output, [i \in 1..Len(cur.output) |-> t]),
                 ErrorMessage(e), "error", t)

\* the history after execute threw
historyAfterThrow(h, command, e, t) ==
    addToHistory(h, ErrorMessage(e), "error", t)

\* the clock readings of the addToHistory calls for the lines of the running
\* command (line 116), each one of the set
Stamps(readings) == [1..Len(cur.output) -> readings]

\* the last reading of a handler that read the clock as t and then as stamps
lastReading(t, stamps) == IF stamps = <<>> THEN t ELSE stamps[Len(stamps)]

\* execute returned normally: the entry of the command is stamped with the
\* clock as it reads then, the entry of the i-th line with stamps[i]
RegistryReturn(stamps) ==
    /\ pc = "executing"
    /\ Len(stamps) = Len(cur.output)
    /\ print' = restoredPrint(print, cur.originalPrint)
    /\ history' = historyAfterReturn(history, cur.command, cur.output, now, stamps)
    /\ appended' = Append(appended, entryOf(CommandMessage(cur.command), "command", now))
                       \o outputEntries(cur.output, stamps)
    /\ resp' = ResponseAt("command", cur.authorization, 200,
                          [success |-> TRUE,
                           output |-> IF Len(cur.output) > 0 THEN cur.output
                                      ELSE <<Placeholder>>],
                          lastReading(now, stamps))
    /\ now' = lastReading(now, stamps)
    /\ pc' = "idle"
    /\ cur' = NoCur
    /\ started' = 0
    /\ UNCHANGED <<sessions, requested, issued, call, delivered, budget>>

\* execute threw e
RegistryThrow(e) ==
    /\ pc = "executing"
    /\ print' = printAfterThrow(print, cur.originalPrint)
    /\ history' = historyAfterThrow(history, cur.command, e, now)
    /\ appended' = Append(appended, entryOf(ErrorMessage(e), "error", now))
    /\ resp' = CatchResponse(cur.authorization, e)
    /\ pc' = "idle"
    /\ cur' = NoCur
    /\ started' = 0
    /\ UNCHANGED <<sessions, requested, issued, now, call, delivered, budget>>

---------------------------------------------------------------------------
(* The environment between requests *)

\* mutant: a line printed between commands is recorded in the history
LoggerPrintIntoHistory(message) ==
    /\ pc = "idle"
    /\ Len(delivered) < MaxDelivered
    /\ delivered' = delivered \o sinkReceives(print, message)
    /\ history' = addToHistory(history, message, "output", now)
    /\ UNCHANGED <<sessions, requested, issued, now, call, appended, print, pc, cur, started, resp, budget>>

\* something else in the process prints through handle.logger.print while no
\* command runs (a timer of the restart command, the listen callback)
LoggerPrint(message) ==
    /\ pc = "idle"
    /\ Len(delivered) < MaxDelivered
    /\ delivered' = delivered \o sinkReceives(print, message)
    /\ UNCHANGED <<sessions, requested, issued, now, call, history, appended, print, pc, cur, started, resp, budget>>

\* the wall clock comes to read t: time passes, between requests or while the
\* registry runs a command, or the clock of the host is set, forward or back
Tick(t) ==
    /\ t # now
    /\ now' = t
    /\ UNCHANGED <<sessions, requested, issued, history, appended, print, delivered, pc, cur, started,
                   resp, call, budget>>

---------------------------------------------------------------------------
(* Inputs of the requests.  An input that the handler does not come to use  *)
(* is not varied: the token and the reading of the sweep of a login that    *)
(* is refused, the reading of the note of a clear-history that is refused.  *)

\* the values randomBytes may give a login with these fields
Draws(u, p) ==
    IF ~fieldsMissing(u, p) /\ credentialsMatch(u, p) THEN randomBytes ELSE {TokenName(1)}

\* those of the first n names that no login has been given yet: the draws
\* of the runs from the construction, from one session and from sessions of
\* any age, in which the tokens are all different
NewDraws(u, p, n) ==
    IF ~fieldsMissing(u, p) /\ credentialsMatch(u, p) THEN FirstTokens(n) \ issued
    ELSE {TokenName(1)}

\* the readings of the clock a login with these fields may take at its sweep
SweepReadings(u, p) ==
    IF ~fieldsMissing(u, p) /\ credentialsMatch(u, p) THEN Instants ELSE {now}

\* the readings of the clock a clear-history with this header may take at its note
NoteReadings(a) == IF Authorized(sessions, a) THEN Instants ELSE {now}

---------------------------------------------------------------------------
(* The console from its construction *)

Next ==
    \/ \E u \in Usernames, p \in Passwords :
          \E tok \in NewDraws(u, p, MaxRequests), t \in SweepReadings(u, p) : Login(u, p, tok, t)
    \/ \E a \in Headers : Logout(a)
    \/ \E a \in Headers : CheckSession(a)
    \/ \E a \in Headers : \E t \in NoteReadings(a) : ClearHistory(a, t)
    \/ \E a \in Headers : GetHistory(a)
    \/ \E a \in Headers, r \in HandleReads : GetStatus(a, r)
    \/ \E a \in Headers, c \in CommandInputs : CommandBegin(a, c)
    \/ \E m \in Lines : RegistryPrint(m)
    \/ \E stamps \in Stamps(Instants) : RegistryReturn(stamps)
    \/ \E e \in Thrown : RegistryThrow(e)
    \/ \E m \in Lines : LoggerPrint(m)
    \/ \E t \in Instants : Tick(t)

Spec == Init /\ [][Next]_vars

---------------------------------------------------------------------------
(* The console with a history of any length up to the cap.  The history of  *)
(* k entries is the one left by k commands the registry does not know       *)
(* (execute returns false and prints nothing), sent at time 0 by the one    *)
(* session that is logged in.  The clock reads 0 throughout.                *)

Prefill(k) == [i \in 1..k |-> entryOf(CommandMessage(ToString(i)), "command", 0)]

InitHistory ==
    /\ sessions = [tok \in {"t1"} |-> newSession(0)]
    /\ requested = [tok \in Tokens |-> 0]
    /\ issued = {"t1"}
    /\ now = 0
    /\ \E k \in 0..maxHistorySize : history = Prefill(k)
    /\ appended = history
    /\ print = 0
    /\ delivered = <<>>
    /\ pc = "idle"
    /\ cur = NoCur
    /\ started = 0
    /\ resp = NoResponse
    /\ call = NoCall
    /\ budget = MaxHistRequests

NextHistory ==
    \/ \E a \in Headers : ClearHistory(a, now)
    \/ \E a \in Headers : GetHistory(a)
    \/ \E a \in Headers, c \in CommandInputs : CommandBegin(a, c)
    \/ \E m \in Lines : RegistryPrint(m)
    \/ \E stamps \in Stamps({now}) : RegistryReturn(stamps)
    \/ \E e \in {x \in Thrown : x.tag = "Error"} : RegistryThrow(e)

SpecHistory == InitHistory /\ [][NextHistory]_vars

---------------------------------------------------------------------------
(* The console with the one session t1, which sends commands and clears    *)
(* the history, the clock read anew at every entry.                         *)

InitOutput ==
    /\ sessions = [tok \in {"t1"} |-> newSession(0)]
    /\ requested = [tok \in Tokens |-> 0]
    /\ issued = {"t1"}
    /\ now = 0
    /\ history = <<>>
    /\ appended = <<>>
    /\ print = 0
    /\ delivered = <<>>
    /\ pc = "idle"
    /\ cur = NoCur
    /\ started = 0
    /\ resp = NoResponse
    /\ call = NoCall
    /\ budget = MaxOutputRequests

NextOutput ==
    \/ \E a \in Headers : \E t \in NoteReadings(a) : ClearHistory(a, t)
    \/ \E a \in Headers, c \in CommandInputs : CommandBegin(a, c)
    \/ \E m \in Lines : LoggerPrint(m)
    \/ \E m \in Lines : RegistryPrint(m)
    \/ \E stamps \in Stamps(Instants) : RegistryReturn(stamps)
    \/ \E e \in Thrown : RegistryThrow(e)
    \/ \E t \in Instants : Tick(t)

SpecOutput == InitOutput /\ [][NextOutput]_vars

---------------------------------------------------------------------------
(* The console with two sessions logged in at time 0 and every request the  *)
(* console serves: logins, whose draw is any token, one of a stored or of a *)
(* revoked session included, the six protected routes, and the commands     *)
(* with what they print.  In these runs the clock moves forward, between    *)
(* the steps and while a command runs, so that a login may sweep the two    *)
(* sessions; it is read once in a handler.                                  *)

InitCommands ==
    /\ sessions = [tok \in {"t1", "t2"} |-> newSession(0)]
    /\ requested = [tok \in Tokens |-> 0]
    /\ issued = {"t1", "t2"}
    /\ now = 0
    /\ history = <<>>
    /\ appended = <<>>
    /\ print = 0
    /\ delivered = <<>>
    /\ pc = "idle"
    /\ cur = NoCur
    /\ started = 0
    /\ resp = NoResponse
    /\ call = NoCall
    /\ budget = MaxCmdRequests

NextCommands ==
    \/ \E u \in Usernames, p \in Passwords :
          \E tok \in Draws(u, p) : Login(u, p, tok, now)
    \/ \E a \in Headers : Logout(a)
    \/ \E a \in Headers : CheckSession(a)
    \/ \E a \in Headers : ClearHistory(a, now)
    \/ \E a \in Headers : GetHistory(a)
    \/ \E a \in Headers, r \in HandleReads : GetStatus(a, r)
    \/ \E a \in Headers, c \in CommandInputs : CommandBegin(a, c)
    \/ \E m \in Lines : LoggerPrint(m)
    \/ \E m \in Lines : RegistryPrint(m)
    \/ \E stamps \in Stamps({now}) : RegistryReturn(stamps)
    \/ \E e \in {x \in Thrown : x.tag = "Error"} : RegistryThrow(e)
    \/ \E t \in {x \in TwoInstants : x > now} : Tick(t)

SpecCommands == InitCommands /\ [][NextCommands]_vars

---------------------------------------------------------------------------
(* The console with the one session t1, created by a login at time 0, and   *)
(* the requests that read or change the session store.                      *)

InitSessions ==
    /\ sessions = [tok \in {"t1"} |-> newSession(0)]
    /\ requested = [tok \in Tokens |-> 0]
    /\ issued = {"t1"}
    /\ now = 0
    /\ history = <<>>
    /\ appended = <<>>
    /\ print = 0
    /\ delivered = <<>>
    /\ pc = "idle"
    /\ cur = NoCur
    /\ started = 0
    /\ resp = NoResponse
    /\ call = NoCall
    /\ budget = MaxSessionRequests

NextSessions ==
    \/ \E u \in Usernames, p \in Passwords :
          \E tok \in NewDraws(u, p, 1 + MaxSessionRequests), t \in SweepReadings(u, p) :
             Login(u, p, tok, t)
    \/ \E a \in Headers : Logout(a)
    \/ \E a \in Headers : CheckSession(a)
    \/ \E t \in Instants : Tick(t)

SpecSessions == InitSessions /\ [][NextSessions]_vars

---------------------------------------------------------------------------
(* addToHistory called as a method of the console, with any second          *)
(* argument, on the console as constructed.                                 *)

AddToHistory(message, type) ==
    /\ pc = "idle"
    /\ budget > 0
    /\ budget' = budget - 1
    /\ history' = addToHistory(history, message, defaultType(type), now)
    /\ appended' = Append(appended, entryOf(message, defaultType(type), now))
    /\ call' = [message |-> message, type |-> type]
    /\ UNCHANGED <<sessions, requested, issued, now, print, delivered, pc, cur, started, resp>>

InitAddToHistory ==
    /\ sessions = [tok \in {} |-> newSession(0)]
    /\ requested = [tok \in Tokens |-> 0]
    /\ issued = {}
    /\ now = 0
    /\ history = <<>>
    /\ appended = <<>>
    /\ print = 0
    /\ delivered = <<>>
    /\ pc = "idle"
    /\ cur = NoCur
    /\ started = 0
    /\ resp = NoResponse
    /\ call = NoCall
    /\ budget = MaxCalls

NextAddToHistory ==
    \/ \E m \in Lines, ty \in GivenTypes : AddToHistory(m, ty)
    \/ \E t \in Instants : Tick(t)

SpecAddToHistory == InitAddToHistory /\ [][NextAddToHistory]_vars

---------------------------------------------------------------------------
(* The sweep, on a console with two sessions, each last active at any of   *)
(* three instants.  The sweep runs in                                       *)
(* a login (line 47), the one call of the repository, and cleanupSessions   *)
(* is also called here as the method of the class that it is.               *)

\* console.cleanupSessions() called from outside the handlers
CleanupSessions ==
    /\ pc = "idle"
    /\ budget > 0
    /\ budget' = budget - 1
    /\ sessions' = cleanupSessions(sessions, now)
    /\ requested' = [k \in Tokens |-> IF k \in DOMAIN sessions' THEN requested[k] ELSE 0]
    /\ call' = [message |-> "cleanupSessions", type |-> Undefined]
    /\ UNCHANGED <<issued, now, history, appended, print, delivered, pc, cur, started, resp>>

\* when a session was last active: at the start, a millisecond later, or
\* 24 hours and a millisecond later
LastActive == {0, 1, IdleTimeout + 1}

InitCleanup ==
    /\ \E active \in [{"t1", "t2"} -> LastActive] :
          /\ sessions = [tok \in {"t1", "t2"} |-> newSession(active[tok])]
          /\ requested = [tok \in Tokens |-> IF tok \in {"t1", "t2"} THEN active[tok] ELSE 0]
    /\ issued = {"t1", "t2"}
    /\ now = 0
    /\ history = <<>>
    /\ appended = <<>>
    /\ print = 0
    /\ delivered = <<>>
    /\ pc = "idle"
    /\ cur = NoCur
    /\ started = 0
    /\ resp = NoResponse
    /\ call = NoCall
    /\ budget = MaxSweeps

NextCleanup ==
    \/ \E u \in Usernames, p \in Passwords :
          \E tok \in NewDraws(u, p, 2 + MaxSweeps), t \in SweepReadings(u, p) : Login(u, p, tok, t)
    \/ CleanupSessions
    \/ \E t \in Instants : Tick(t)

SpecCleanup == InitCleanup /\ [][NextCleanup]_vars

---------------------------------------------------------------------------
(* Vocabulary of the properties *)

\* a request with this Authorization header to some protected route
ProtectedRequest(a) ==
    \/ Logout(a)
    \/ CheckSession(a)
    \/ \E t \in Instants : ClearHistory(a, t)
    \/ GetHistory(a)
    \/ \E r \in HandleReads : GetStatus(a, r)
    \/ \E c \in CommandInputs : CommandBegin(a, c)

\* a login with these fields, whatever the clock reads at its sweep
LoginRequest(u, p) == \E tok \in Tokens, t \in Instants : Login(u, p, tok, t)

\* a clear-history request, whatever the clock reads at its note
ClearRequest(a) == \E t \in Instants : ClearHistory(a, t)

\* the registry returns, whatever the clock reads at the entries
Returned == \E stamps \in Stamps(Instants) : RegistryReturn(stamps)

\* the header names a session of the store
Live(a) == a # Undefined /\ a \in DOMAIN sessions

\* the handler of a command hands control to the registry
Invoked == pc = "idle" /\ pc' = "executing"

\* the handler of a command ends, the registry having returned or thrown
Finished == pc = "executing" /\ pc' = "idle"

LastEntry(h) == h[Len(h)]

Pieces(message) == {message[i] : i \in 1..Len(message)}

\* the last n elements of a sequence
LastN(seq, n) ==
    IF Len(seq) <= n THEN seq ELSE [i \in 1..n |-> seq[Len(seq) - n + i]]

---------------------------------------------------------------------------
(* C1: after a command request has finished, whether execute returned or   *)
(* threw, handle.logger.print is the function that was installed before    *)
(* it: whenever no command is executing, the sink is the original one.     *)
C1_SinkOriginalWhenIdle == pc = "idle" => print = 0

(* C2: whatever value execute throws, the handler absorbs it: it appends   *)
(* exactly one history entry, of type 'error', and answers 200 with        *)
(* {success: false, error}; the request never ends as a 5xx.               *)
C2_FaultAbsorbed ==
    [][\A e \in Thrown :
          RegistryThrow(e) =>
             /\ resp'.status = 200
             /\ Has(resp'.body, "success") /\ resp'.body.success = FALSE
             /\ Has(resp'.body, "error")
             /\ Len(history') = Len(history) + 1
             /\ SubSeq(history', 1, Len(history)) = history
             /\ LastEntry(history').type = "error"]_vars

(* C3: for an authorized command request with a non-empty text, an entry   *)
(* of type 'command' for that text is in the history before the registry   *)
(* is invoked, and when the registry throws the 'error' entry comes after  *)
(* it.                                                                     *)
C3_CommandRecordedBeforeExecution ==
    [][/\ Invoked =>
             /\ Len(history') = Len(history) + 1
             /\ LastEntry(history').type = "command"
             /\ cur'.command \in Pieces(LastEntry(history').message)
       /\ (Finished /\ resp'.status = 200 /\ resp'.body.success = FALSE) =>
             /\ Len(history') >= 2
             /\ LastEntry(history').type = "error"
             /\ history'[Len(history') - 1].type = "command"
             /\ cur.command \in Pieces(history'[Len(history') - 1].message)]_vars

(* C4: when the registry returns normally after printing lines L1..Ln,     *)
(* n >= 1, the response is {success: true, output: [L1..Ln]} in the order  *)
(* of printing, and the history grows by one 'command' entry followed by   *)
(* n 'output' entries carrying L1..Ln in that order.  (Each entry carries   *)
(* the reading of the clock of its own addToHistory call.)                 *)
C4_OutputReturnedAndRecorded ==
    [][/\ (pc = "executing" /\ pc' = "executing" /\ delivered' # delivered) =>
             /\ Len(delivered') = Len(delivered) + 1
             /\ cur'.output = Append(cur.output, LastEntry(delivered'))
       /\ (Finished /\ resp'.status = 200 /\ resp'.body.success /\ Len(cur.output) >= 1) =>
             /\ resp'.body = [success |-> TRUE, output |-> cur.output]
             /\ Len(history') = Len(history) + 1 + Len(cur.output)
             /\ SubSeq(history', 1, Len(history)) = history
             /\ history'[Len(history) + 1] =
                    [message |-> <<"@ ", cur.command>>, type |-> "command", timestamp |-> now]
             /\ \E stamps \in Stamps(Instants) :
                   \A i \in 1..Len(cur.output) :
                      history'[Len(history) + 1 + i] =
                         [message |-> cur.output[i], type |-> "output",
                          timestamp |-> stamps[i]]]_vars

\* a command printed A then B, returned, and both are in the response and the
\* history, the clock having read three instants at the three entries
C4_Witness ==
    /\ pc = "idle"
    /\ resp.route = "command"
    /\ resp.body = [success |-> TRUE, output |-> << <<"A">>, <<"B">> >>]
    /\ Len(history) = 3
    /\ history[1].type = "command"
    /\ history[2].message = <<"A">>
    /\ history[3].message = <<"B">>
    /\ history[1].timestamp < history[2].timestamp
    /\ history[2].timestamp < history[3].timestamp
    /\ resp.at = history[3].timestamp

(* C5: a request to a protected route whose Authorization header is absent *)
(* or names no session of the store is answered 401 and has no effect:     *)
(* history, sink and sessions are unchanged and the registry is not        *)
(* invoked.                                                                *)
C5_UnauthorizedHasNoEffect ==
    [][\A a \in Headers :
          (~Live(a) /\ ProtectedRequest(a)) =>
             /\ resp'.status = 401
             /\ resp'.route \in ProtectedRoutes
             /\ pc' = "idle"
             /\ UNCHANGED <<history, print, sessions, issued, delivered, cur, started>>]_vars

\* the clock has passed the timeout, a login has swept the two sessions of
\* the start, and the token of one of them has just been refused by
\* clear-history
C5_Witness ==
    /\ resp.status = 401
    /\ resp.route = "clear-history"
    /\ resp.authorization = "t1"
    /\ DOMAIN sessions \cap {"t1", "t2"} = {}
    /\ budget = MaxCmdRequests - 2

(* C6: a token whose session has been idle for more than 24 hours is       *)
(* refused by every protected route, also when no login has swept it; its  *)
(* lastActivity is never refreshed.                                        *)
C6_ExpiredTokenRefused ==
    [][\A a \in Headers :
          (Live(a) /\ now - sessions[a].lastActivity > IdleTimeout /\ ProtectedRequest(a)) =>
             /\ resp'.status = 401
             /\ pc' = "idle"
             /\ UNCHANGED sessions]_vars

(* C7: the history never holds more than 100 entries, and it always holds  *)
(* the last 100 entries appended since the last clear, in the order of     *)
(* their insertion (all of them while there are fewer than 100).           *)
C7_HistoryIsLastHundred ==
    /\ Len(history) <= 100
    /\ history = LastN(appended, 100)

\* more than 100 entries were appended and the oldest ones are gone
C7_Witness ==
    /\ Len(appended) > 100
    /\ Len(history) = 100
    /\ history[1] # appended[1]
    /\ LastEntry(history) = LastEntry(appended)

(* C8: an authorized clear-history request on a buffer of k entries        *)
(* answers cleared = k and leaves the buffer holding exactly one entry, a  *)
(* new entry of type 'info'; a history read that follows immediately       *)
(* returns only that entry.                                                *)
C8_ClearLeavesOneInfoEntry ==
    [][\A a \in Headers :
          /\ \A t \in Instants :
                (Live(a) /\ ClearHistory(a, t)) =>
                   /\ resp'.status = 200
                   /\ resp'.body.success
                   /\ resp'.body.cleared = Len(history)
                   /\ Len(history') = 1
                   /\ history'[1].type = "info"
                   /\ history'[1].timestamp = t
                /\ ToString(Len(history)) \in Pieces(history'[1].message)
          /\ (resp.route = "clear-history" /\ resp.status = 200 /\ Live(a) /\ GetHistory(a)) =>
                /\ resp'.status = 200
                /\ resp'.body.array = history
                /\ Len(resp'.body.array) = 1
                /\ resp'.body.array[1].type = "info"]_vars

\* a full buffer was cleared and the read that followed returned the one info entry
C8_Witness ==
    /\ resp.route = "history"
    /\ resp.status = 200
    /\ Len(resp.body.array) = 1
    /\ resp.body.array[1].type = "info"
    /\ "100" \in Pieces(resp.body.array[1].message)

(* C9: an authorized command request whose command text is empty or        *)
(* missing is answered {success: false, error} and appends nothing to the  *)
(* history, does not invoke the registry and does not swap the sink.       *)
C9_EmptyCommandRejected ==
    [][\A a \in Headers : \A c \in {Undefined, ""} :
          (Live(a) /\ CommandBegin(a, c)) =>
             /\ resp'.route = "command"
             /\ resp'.status = 200
             /\ resp'.body.success = FALSE
             /\ Has(resp'.body, "error")
             /\ pc' = "idle"
             /\ UNCHANGED <<history, print, delivered, cur, started>>]_vars

\* an authorized request without a command text has been answered, the history left alone
C9_Witness ==
    /\ resp.route = "command"
    /\ resp.status = 200
    /\ resp.body = [success |-> FALSE, error |-> "No command provided"]
    /\ Live(resp.authorization)
    /\ pc = "idle"
    /\ history = <<>>

(* C10, as stated: a logout request succeeds for a live token, for a token *)
(* already logged out and for an absent token, and leaves no session for   *)
(* that token.                                                             *)
C10_LogoutAlwaysSucceeds ==
    [][\A a \in Headers :
          Logout(a) =>
             /\ resp'.status = 200
             /\ Has(resp'.body, "success") /\ resp'.body.success
             /\ a \notin DOMAIN sessions']_vars

(* C10, amended: a logout with a live token succeeds and removes exactly   *)
(* that session; a logout with an absent or already logged-out token is    *)
(* answered 401 and leaves the session store as it is, so a second logout  *)
(* leaves the store in the state the first one left.                       *)
C10_LogoutIdempotentOnStore ==
    [][\A a \in Headers :
          /\ (Live(a) /\ Logout(a)) =>
                /\ resp'.status = 200
                /\ resp'.body = [success |-> TRUE]
                /\ DOMAIN sessions' = DOMAIN sessions \ {a}
                /\ \A k \in DOMAIN sessions' : sessions'[k] = sessions[k]
          /\ (~Live(a) /\ Logout(a)) =>
                /\ resp'.status = 401
                /\ sessions' = sessions]_vars

\* a second logout with the same token has been refused, the token still gone
C10_Witness ==
    /\ resp.route = "logout"
    /\ resp.status = 401
    /\ resp.authorization \in issued
    /\ resp.authorization \notin DOMAIN sessions

C12_SweepRemovesExactlyExpired ==
    [][( \/ (\E u \in Usernames, p \in Passwords : LoginRequest(u, p)) /\ resp'.status = 200
         \/ CleanupSessions ) =>
          \A k \in DOMAIN sessions :
             IF now' - sessions[k].lastActivity > 86400000
             THEN k \notin DOMAIN sessions'
             ELSE k \in DOMAIN sessions' /\ sessions'[k] = sessions[k]]_vars

\* a sweep at 24 h and 1 ms has removed the session last active at 0 and kept
\* the one last active at 1 ms, idle for exactly 24 hours
C12_Witness ==
    /\ call.message = "cleanupSessions"
    /\ now = IdleTimeout + 1
    /\ DOMAIN sessions = {"t1"}
    /\ sessions["t1"].lastActivity = 1

C14_LoginOnlyWithBothCredentials ==
    [][\A u \in Usernames, p \in Passwords :
          LoginRequest(u, p) =>
             /\ (resp'.status = 200) <=> (u = credentials.username /\ p = credentials.password)
             /\ resp'.status = 200 =>
                   /\ resp'.body.success
                   /\ resp'.body.token \in issued' \ issued
                   /\ resp'.body.token \notin DOMAIN sessions
                   /\ \/ resp'.body.token \in DOMAIN sessions'
                      \/ now' - now > 86400000
             /\ resp'.status # 200 => (resp'.body.success = FALSE /\ sessions' = sessions)
             /\ ( /\ u \notin {Undefined, ""}
                  /\ p \notin {Undefined, ""}
                  /\ (u # credentials.username \/ p # credentials.password) )
                => resp'.status = 401]_vars

\* a login with a wrong credential was refused while a session existed, which is still there
C14_Witness ==
    /\ resp.route = "login"
    /\ resp.status = 401
    /\ DOMAIN sessions # {}

(* C15: the lastActivity of a live session never decreases; a request that *)
(* passes authorization sets the lastActivity of its session to the time   *)
(* of the request and changes no other session.  (The value assigned is    *)
(* the reading of the wall clock, so it decreases when the clock was set   *)
(* back since the last request of the session.)                            *)
C15_LastActivityMonotonic ==
    [][/\ \A k \in DOMAIN sessions \cap DOMAIN sessions' :
             sessions'[k].lastActivity >= sessions[k].lastActivity
       /\ \A a \in Tokens :
             (Live(a) /\ ProtectedRequest(a)) =>
                /\ a \in DOMAIN sessions' => sessions'[a].lastActivity = now
                /\ \A k \in DOMAIN sessions \ {a} :
                      k \in DOMAIN sessions' /\ sessions'[k] = sessions[k]]_vars

(* C16: at every instant at most one capture wrapper is installed on the   *)
(* shared sink: handle.logger.print is the original sink or one wrapper    *)
(* directly around it, never a wrapper around another wrapper.             *)
C16_AtMostOneWrapper == print <= 1

(* C17: every message printed through handle.logger.print, during a        *)
(* command or between commands and whatever wrappers earlier faulting      *)
(* commands left installed, reaches the original sink exactly once and     *)
(* unchanged; nothing else reaches the original sink.                      *)
C17_EveryMessageDeliveredOnce ==
    [][/\ \A m \in Lines :
             (RegistryPrint(m) \/ LoggerPrint(m)) => delivered' = Append(delivered, m)
       /\ delivered' # delivered =>
             \E m \in Lines : RegistryPrint(m) \/ LoggerPrint(m)]_vars

\* with the wrapper of a faulted command still installed, A was printed
\* before the second command began and B by the second command, and the
\* original sink holds A and B once each
C17_Witness ==
    /\ pc = "executing"
    /\ print = 2
    /\ cur.output = << <<"B">> >>
    /\ delivered = << <<"A">>, <<"B">> >>

(* C18: the history entries of command requests appear in the order in     *)
(* which the requests were taken up and are never interleaved: while the   *)
(* handler of a command runs no other request is taken up and the history  *)
(* does not change, and when it ends the entries of that command are       *)
(* appended to the history as one contiguous block.                        *)
C18_CommandsRecordedInOrder ==
    [][/\ pc = "executing" =>
             /\ budget' = budget
             /\ sessions' = sessions
             /\ pc' = "executing" =>
                   /\ history' = history
                   /\ cur'.command = cur.command
                   /\ cur'.authorization = cur.authorization
       /\ Invoked => history' = history
       /\ Finished =>
             /\ SubSeq(history', 1, Len(history)) = history
             /\ LET block == SubSeq(history', Len(history) + 1, Len(history'))
                IN  \/ /\ Len(block) = 1 + Len(cur.output)
                       /\ block[1] = [message |-> <<"@ ", cur.command>>,
                                      type |-> "command", timestamp |-> now]
                       /\ \E stamps \in Stamps(Instants) :
                             \A i \in 1..Len(cur.output) :
                                block[1 + i] = [message |-> cur.output[i],
                                                type |-> "output", timestamp |-> stamps[i]]
                    \/ /\ Len(block) = 1
                       /\ block[1].type = "error"]_vars

\* the session t1 sent a command that printed A, later the session t2 sent
\* one that printed B, and the history holds the entries of the first
\* followed by the entries of the second
C18_Witness ==
    /\ pc = "idle"
    /\ resp.route = "command"
    /\ resp.authorization = "t2"
    /\ DOMAIN sessions = {"t1", "t2"}
    /\ sessions["t1"].lastActivity < sessions["t2"].lastActivity
    /\ Len(history) = 4
    /\ history[1].type = "command" /\ history[1].timestamp = sessions["t1"].lastActivity
    /\ history[2].message = <<"A">> /\ history[2].timestamp = sessions["t1"].lastActivity
    /\ history[3].type = "command" /\ history[3].timestamp = sessions["t2"].lastActivity
    /\ history[4].message = <<"B">> /\ history[4].timestamp = sessions["t2"].lastActivity

(* C19: an authorized status request is answered 200 with the running flag *)
(* and the port read from the handle (false and 3001 where they are not    *)
(* set), or with running false, port 3001 and an error when the read       *)
(* throws; it leaves history, sink and registry alone and changes no       *)
(* session but the lastActivity of the caller's.                           *)
C19_StatusReadOnly ==
    [][\A a \in Tokens, r \in HandleReads :
          (Live(a) /\ GetStatus(a, r)) =>
             /\ resp'.status = 200
             /\ resp'.route = "status"
             /\ resp'.body.running = (~r.throws /\ r.running)
             /\ resp'.body.serverPort =
                   (IF r.throws \/ r.serverPort = 0 THEN 3001 ELSE r.serverPort)
             /\ Has(resp'.body, "error") <=> r.throws
             /\ UNCHANGED <<history, appended, print, delivered, pc, cur, started, issued>>
             /\ DOMAIN sessions' = DOMAIN sessions
             /\ \A k \in DOMAIN sessions \ {a} : sessions'[k] = sessions[k]]_vars

\* the status of a stopped server with no port set was asked for while the
\* history was not empty and a wrapper was installed
C19_Witness ==
    /\ resp.route = "status"
    /\ resp.status = 200
    /\ resp.body = [running |-> FALSE, serverPort |-> 3001]
    /\ history # <<>>
    /\ print = 1

(* C20: the output returned for a command is the sequence of the lines     *)
(* printed through the sink between the start and the end of the registry  *)
(* call of that command, in order, none missing and none of another        *)
(* command or of the time between commands, also after earlier commands    *)
(* faulted; where no line was printed it is the one placeholder line.      *)
C20_OutputIsWhatTheCommandPrinted ==
    [][/\ pc' = "executing" =>
             cur'.output = SubSeq(delivered', started' + 1, Len(delivered'))
       /\ (Finished /\ resp'.status = 200 /\ Has(resp'.body, "output")) =>
             LET printed == SubSeq(delivered, started + 1, Len(delivered))
             IN  resp'.body.output =
                    (IF printed = <<>> THEN << <<"Command executed successfully">> >>
                     ELSE printed)
       /\ (Finished /\ Returned) =>
             (resp'.status = 200 /\ Has(resp'.body, "output"))]_vars

\* a command faulted, A was printed before the next command began, and that command
\* printed B and returned B alone
C20_Witness ==
    /\ pc = "idle"
    /\ print = 1
    /\ resp.route = "command"
    /\ resp.status = 200
    /\ resp.body = [success |-> TRUE, output |-> << <<"B">> >>]
    /\ delivered = << <<"A">>, <<"B">> >>

(* C21: when the registry returns normally without having printed a line, *)
(* the response is {success: true, output: [placeholder]} with the one     *)
(* placeholder line, and the history grows by the 'command' entry alone:   *)
(* the placeholder is not recorded.                                        *)
C21_PlaceholderNotRecorded ==
    [][(Returned /\ cur.output = <<>>) =>
          /\ resp'.status = 200
          /\ resp'.body = [success |-> TRUE,
                           output |-> << <<"Command executed successfully">> >>]
          /\ history' = Append(history, [message |-> <<"@ ", cur.command>>,
                                         type |-> "command", timestamp |-> now])]_vars

\* a command that printed nothing has returned: the placeholder is in the
\* response and the history holds the one entry of the command
C21_Witness ==
    /\ pc = "idle"
    /\ resp.route = "command"
    /\ resp.body = [success |-> TRUE, output |-> <<Placeholder>>]
    /\ delivered = <<>>
    /\ Len(history) = 1
    /\ history[1].type = "command"

(* C22: the sweep runs on each successful login and at no other time: a    *)
(* session leaves the store only by its own logout or by the sweep of a    *)
(* successful login that finds it idle for more than 24 hours; after a     *)
(* successful login no session of the store is idle for more than 24       *)
(* hours, and any other step leaves a session that is idle for longer in   *)
(* the store.  (Idle is measured by the clock as the sweep reads it.)       *)
C22_SweepOnlyOnSuccessfulLogin ==
    [][LET loggedIn == /\ \E u \in Usernames, p \in Passwords : LoginRequest(u, p)
                       /\ resp'.status = 200
       IN  /\ \A k \in DOMAIN sessions \ DOMAIN sessions' :
                 \/ Logout(k)
                 \/ loggedIn /\ now' - sessions[k].lastActivity > 86400000
           /\ loggedIn =>
                 \A k \in DOMAIN sessions' : now' - sessions'[k].lastActivity <= 86400000]_vars

\* a request other than a login was served while a session idle for more
\* than 24 hours was in the store, and that session is still there
C22_Witness ==
    /\ resp.route \in ProtectedRoutes
    /\ resp.status = 200
    /\ \E k \in DOMAIN sessions : resp.at - sessions[k].lastActivity > IdleTimeout

(* C23: the answer to a failed login and its effect do not depend on which *)
(* field was wrong: of two attempts with both fields present and not both  *)
(* right, each leads from a state to exactly the states the other leads    *)
(* to, with the same status, the same body and the same session store.     *)
C23_FailedLoginsIndistinguishable ==
    [][LET failing == {up \in Usernames \X Passwords :
                          /\ up[1] \notin {Undefined, ""}
                          /\ up[2] \notin {Undefined, ""}
                          /\ ~(up[1] = "admin" /\ up[2] = "secret")}
       IN  \A a \in failing, b \in failing :
              LoginRequest(a[1], a[2]) =>
                 /\ LoginRequest(b[1], b[2])
                 /\ resp'.status = 401
                 /\ sessions' = sessions]_vars

\* a login with both fields present was refused; none has succeeded so far
C23_Witness ==
    /\ resp.route = "login"
    /\ resp.status = 401
    /\ resp.body = [success |-> FALSE, error |-> "Invalid credentials"]
    /\ issued = {"t1"}

(* C24: a login in which the username or the password is missing or empty  *)
(* is answered 400 with {success: false, error}, whatever the other field  *)
(* is, and changes nothing: no session is created and no sweep runs.       *)
C24_IncompleteLoginRefused ==
    [][\A u \in Usernames, p \in Passwords :
          ((u \in {Undefined, ""} \/ p \in {Undefined, ""}) /\ LoginRequest(u, p)) =>
             /\ resp'.status = 400
             /\ resp'.body.success = FALSE
             /\ Has(resp'.body, "error")
             /\ UNCHANGED <<sessions, issued, history, print, delivered, pc, cur>>]_vars

\* an incomplete login was refused while a session idle for more than 24
\* hours was in the store, and that session is still there
C24_Witness ==
    /\ resp.route = "login"
    /\ resp.status = 400
    /\ \E k \in DOMAIN sessions : resp.at - sessions[k].lastActivity > IdleTimeout

(* C25: expiry is sliding: a sweep never removes a session whose last     *)
(* accepted request, or login, is at most 24 hours old, however many       *)
(* sweeps there are; such a session leaves the store only by its logout,   *)
(* and as long as it is stored its requests are authorized.                *)
C25_ExpiryIsSliding ==
    [][LET loggedIn == /\ \E u \in Usernames, p \in Passwords : LoginRequest(u, p)
                       /\ resp'.status = 200
       IN  /\ \A k \in DOMAIN sessions :
                 (loggedIn /\ now' - requested[k] <= 86400000) => k \in DOMAIN sessions'
           /\ \A k \in DOMAIN sessions \ DOMAIN sessions' :
                 Logout(k) \/ now' - requested[k] > 86400000
           /\ \A k \in Tokens :
                 (Live(k) /\ ProtectedRequest(k)) =>
                    (resp'.status = 200 \/ pc' = "executing")]_vars

\* the session created at time 0 made a request 24 hours later, and the
\* sweep of a login more than 24 hours after its creation has kept it
C25_Witness ==
    /\ resp.route = "login"
    /\ resp.status = 200
    /\ resp.at > IdleTimeout
    /\ resp.body.token # "t1"
    /\ "t1" \in DOMAIN sessions
    /\ sessions["t1"].lastActivity = IdleTimeout

(* C26: the sweep of a successful login never removes the session that     *)
(* login has just created: the returned token is in the store when the     *)
(* response is sent, and the next protected request with it, made within   *)
(* 24 hours, is not refused.  (The session is stamped with one reading of  *)
(* the clock and the sweep compares it with a later one.)                  *)
C26_NewSessionSurvivesSweep ==
    [][/\ ((\E u \in Usernames, p \in Passwords : LoginRequest(u, p)) /\ resp'.status = 200) =>
             /\ resp'.body.token \notin DOMAIN sessions
             /\ resp'.body.token \in DOMAIN sessions'
             /\ sessions'[resp'.body.token].lastActivity = now
       /\ \A a \in Tokens :
             ( /\ resp.route = "login" /\ resp.status = 200
               /\ resp.body.token = a
               /\ now - resp.at <= 86400000
               /\ ProtectedRequest(a) )
             => (resp'.status = 200 \/ pc' = "executing")]_vars

(* C27: a command whose registry call returns normally leaves              *)
(* handle.logger.print as it was when the handler of that command started, *)
(* the original sink or whatever stack of wrappers earlier commands left:  *)
(* it adds no layer and removes none but its own.                          *)
C27_ReturnRestoresSinkOfStart ==
    [][/\ Invoked => (cur'.originalPrint = print /\ print' = print + 1)
       /\ (pc = "executing" /\ pc' = "executing") =>
             (print' = print /\ cur'.originalPrint = cur.originalPrint)
       /\ Returned => (print' = cur.originalPrint /\ print' = print - 1)]_vars

\* a command returned normally and the wrapper an earlier faulted command
\* left is still the sink, no more and no less
C27_Witness ==
    /\ pc = "idle"
    /\ print = 1
    /\ resp.route = "command"
    /\ resp.status = 200
    /\ resp.body.success
    /\ Len(history) >= 2
    /\ history[1].type = "error"

(* C28: when the registry throws after having printed lines, the lines are *)
(* neither returned nor recorded: the history grows by the one 'error'     *)
(* entry and the response carries no output list.                          *)
C28_FaultDropsCapturedLines ==
    [][\A e \in Thrown :
          (RegistryThrow(e) /\ cur.output # <<>>) =>
             /\ Len(history') = Len(history) + 1
             /\ SubSeq(history', 1, Len(history)) = history
             /\ LastEntry(history').type = "error"
             /\ \A i \in 1..Len(cur.output) :
                   LastEntry(history').message # cur.output[i]
             /\ ~Has(resp'.body, "output")]_vars

\* the first command printed A and B and then threw: the sink has both and
\* the history has the error entry alone
C28_Witness ==
    /\ pc = "idle"
    /\ print = 1
    /\ resp.route = "command"
    /\ ~Has(resp.body, "output")
    /\ delivered = << <<"A">>, <<"B">> >>
    /\ Len(history) = 1
    /\ history[1].type = "error"
    /\ budget = MaxOutputRequests - 1

(* C29: a line printed through handle.logger.print when no command is      *)
(* executing, as the timer of 'restart' does, reaches the original sink    *)
(* and nothing else: the history and the last response are unchanged, and  *)
(* the output of a command that ends later holds only lines the sink       *)
(* received after that command began.                                      *)
C29_LateLineOnlyReachesSink ==
    [][/\ \A m \in Lines :
             LoggerPrint(m) =>
                /\ pc = "idle"
                /\ delivered' = Append(delivered, m)
                /\ UNCHANGED <<history, appended, resp, cur, print, pc>>
       /\ (Finished /\ resp'.status = 200 /\ Has(resp'.body, "output")) =>
             \/ resp'.body.output = << <<"Command executed successfully">> >>
             \/ /\ Len(resp'.body.output) = Len(delivered) - started
                /\ \A i \in 1..Len(resp'.body.output) :
                      resp'.body.output[i] = delivered[started + i]]_vars

\* the one command served printed A and returned it; B was printed after
\* that and is in the sink, not in the response and not in the history
C29_Witness ==
    /\ pc = "idle"
    /\ resp.route = "command"
    /\ resp.body = [success |-> TRUE, output |-> << <<"A">> >>]
    /\ delivered = << <<"A">>, <<"B">> >>
    /\ Len(history) = 2
    /\ history[2].message = <<"A">>

(* C30: an authorized history read answers 200 with the entries of the     *)
(* buffer, oldest first, and changes nothing but the lastActivity of the   *)
(* caller's session; a read that follows a read with no command or clear   *)
(* in between returns the same sequence.                                   *)
C30_HistoryReadOnly ==
    [][\A a \in Tokens :
          (Live(a) /\ GetHistory(a)) =>
             /\ resp'.status = 200
             /\ resp'.body.array = history
             /\ (resp.route = "history" /\ resp.status = 200) =>
                   resp'.body.array = resp.body.array
             /\ UNCHANGED <<history, appended, print, delivered, pc, cur, started, issued>>
             /\ DOMAIN sessions' = DOMAIN sessions
             /\ \A k \in DOMAIN sessions \ {a} : sessions'[k] = sessions[k]]_vars

\* the buffer of several entries, unchanged from the start, was read by
\* the last of the requests: the response starts with the oldest entry and
\* ends with the newest
C30_Witness ==
    /\ resp.route = "history"
    /\ resp.status = 200
    /\ Len(history) >= 2
    /\ resp.body.array = history
    /\ budget = 0
    /\ resp.body.array[1].message = <<"@ ", "1">>
    /\ LastEntry(resp.body.array).message = <<"@ ", ToString(Len(history))>>

(* C31: a history entry is never changed after it was inserted: a step    *)
(* that changes the buffer is a clear, which leaves one new entry, or it   *)
(* keeps the entries from some position on to the end as they are and in   *)
(* their order, drops the ones before it, and puts new entries after them; *)
(* entries are dropped from the front only when the buffer is at its cap.  *)
C31_EntriesNeverChange ==
    [][history' # history =>
          \/ /\ \E a \in Tokens : Live(a) /\ ClearRequest(a)
             /\ Len(history') = 1
          \/ \E d \in 0..Len(history) :
                LET kept == SubSeq(history, d + 1, Len(history))
                IN  /\ Len(history') > Len(kept)
                    /\ SubSeq(history', 1, Len(kept)) = kept
                    /\ d > 0 => Len(history') = 100]_vars

\* a command with two lines of output was recorded in a full buffer: the
\* three oldest entries are gone and the other 97 are as they were, in order
C31_Witness ==
    /\ Len(history) = 100
    /\ Len(appended) = 103
    /\ \A i \in 1..97 : history[i] = appended[i + 3]
    /\ history[1].message = <<"@ ", "4">>
    /\ history[97].message = <<"@ ", "100">>
    /\ history[98].type = "command"
    /\ history[100].type = "output"

(* C32: every entry of the history buffer has a kind in {command, output,  *)
(* error, success, info, warning}: addToHistory stores the kind it is      *)
(* given when it is one of the six and 'info' for any other, a missing one *)
(* included.                                                               *)
C32_KindsAreValid ==
    [][/\ \A i \in 1..Len(history') :
             history'[i].type \in {"command", "output", "error", "success", "info", "warning"}
       /\ \A m \in Lines, ty \in GivenTypes :
             AddToHistory(m, ty) =>
                LastEntry(history').type =
                   (IF ty \in {"command", "output", "error", "success", "info", "warning"}
                    THEN ty ELSE "info")]_vars

\* addToHistory was called with 'debug' and with 'warning': the buffer holds
\* an 'info' entry and a 'warning' entry
C32_Witness ==
    /\ call.type = "debug"
    /\ Len(history) = 2
    /\ history[1].type = "warning"
    /\ history[2].type = "info"

====
